---- MODULE Spec2Model ----
(***************************************************************************)
(* Energy Power Dashboard (src/app.py): the session state of the Streamlit *)
(* script and the effect of one script run per operator interaction.       *)
(*                                                                         *)
(* A DataFrame is a record [cols, rows]: cols is the sequence of column    *)
(* labels (pandas allows a label to occur more than once), rows the        *)
(* sequence of rows, each a sequence of cells aligned with cols.  The row  *)
(* index is always 0..n-1 (every concat uses ignore_index, every slice is  *)
(* a prefix), so it is not stored.  A cell is a record [k, n, s]: a float  *)
(* (k = "num"), a timezone-aware timestamp (k = "ts"), a string            *)
(* (k = "str", s its pieces) or a missing value (k = "na": None and NaN    *)
(* are not told apart).                                                    *)
(*                                                                         *)
(* A script run that raises stops at the raise: what it assigned to the    *)
(* session before stays, Streamlit shows the exception (msg = Exception).  *)
(* A button can be clicked when the script, run on the current session,    *)
(* reaches it.                                                             *)
(***************************************************************************)
EXTENDS Integers, Sequences, FiniteSets, TLC

\* ------------------------------------------------------------------ bounds

\* Operator interactions (script runs) in one behaviour.
MaxRuns == 3

\* ------------------------------------------------------------- configuration

SWG_LIST == <<"SWG1", "SWG2", "SWG3">>

Units == {SWG_LIST[i] : i \in 1..Len(SWG_LIST)}

DEFAULT_LIMITS ==
  [power |-> [min |-> -200, max |-> 200], soc |-> [min |-> 0, max |-> 100]]

DateTimeCol(swg) == swg \o "_DateTime"

PowerCol(swg) == swg \o "_Power(MW)"

SOCCol(swg) == swg \o "_SOC(%)"

CanonicalCols(swg) == <<DateTimeCol(swg), PowerCol(swg), SOCCol(swg)>>

\* ------------------------------------------------------------------ inputs

\* What the operator types into the Add form.
PowerInputs == {200, 300}

SOCInputs == {100, 150}

\* What the operator types into the limit settings.
PowerMinInputs == {0, 150}

PowerMaxInputs == {150, 250}

SOCMinInputs == {10, 50}

SOCMaxInputs == {50}

\* The one instant the clock shows (datetime.now(tz = LOCAL_TZ)).
ClockValues == {1}

\* Column names the operator types: the text field's default and the name of
\* a column the table starts with.
TypedNames(swg) == {"New_Column_4", DateTimeCol(swg)}

MergedNames == {"Merged_Column"}

Separators == {" | "}

\* Every column label in increasing string order (Python compares str by
\* code point): pandas' Index.is_monotonic_increasing reads this order.
NameOrder ==
  << "Merged_Column", "New_Column_4",
     "SWG1_DateTime", "SWG1_Power(MW)", "SWG1_SOC(%)",
     "SWG2_DateTime", "SWG2_Power(MW)", "SWG2_SOC(%)",
     "SWG3_DateTime", "SWG3_Power(MW)", "SWG3_SOC(%)" >>

NameRank(name) == CHOOSE i \in 1..Len(NameOrder) : NameOrder[i] = name

\* ------------------------------------------------------------------- cells

NoValue == [k |-> "na", n |-> 0, s |-> <<>>]

Num(x) == [k |-> "num", n |-> x, s |-> <<>>]

Timestamp(t) == [k |-> "ts", n |-> t, s |-> <<>>]

Text(pieces) == [k |-> "str", n |-> 0, s |-> pieces]

\* str(float(x)) for the numbers the operator can type.
FloatRepr(x) ==
  CASE x = 100 -> "100.0"
    [] x = 150 -> "150.0"
    [] x = 200 -> "200.0"
    [] x = 300 -> "300.0"
    [] OTHER -> "float"

\* Series.astype(str) on one cell: the text of the value.
AsTypeStr(cell) ==
  CASE cell.k = "num" -> <<FloatRepr(cell.n)>>
    [] cell.k = "ts" -> <<"2026-01-01 00:00:00+07:00">>
    [] cell.k = "str" -> cell.s
    [] OTHER -> <<"nan">>

\* ------------------------------------------------------------- data frames

EmptyFrame(cols) == [cols |-> cols, rows |-> <<>>]

\* DataFrame.empty: an axis of length 0.
IsEmpty(df) == Len(df.rows) = 0 \/ Len(df.cols) = 0

Positions(cols, name) == {i \in 1..Len(cols) : cols[i] = name}

HasCol(df, name) == Positions(df.cols, name) # {}

IsUnique(cols) == \A i, j \in 1..Len(cols) : cols[i] = cols[j] => i = j

\* The subsequence of s at the increasing positions in keep.
RECURSIVE Pick(_, _, _)
Pick(s, keep, i) ==
  IF i > Len(s) THEN <<>>
  ELSE (IF i \in keep THEN <<s[i]>> ELSE <<>>) \o Pick(s, keep, i + 1)

\* s with the elements at positions p and q exchanged.
Swap(s, p, q) ==
  [i \in 1..Len(s) |-> IF i = p THEN s[q] ELSE IF i = q THEN s[p] ELSE s[i]]

\* The labels of add that are not labels of cols, in add's order.
NewLabels(cols, add) ==
  Pick(add, {i \in 1..Len(add) : Positions(cols, add[i]) = {}}, 1)

\* The value a dict row holds for label name, missing when it has none.
RowValue(rowcols, rowvals, name) ==
  IF Positions(rowcols, name) = {} THEN NoValue
  ELSE rowvals[CHOOSE i \in Positions(rowcols, name) : TRUE]

\* pd.concat([df, pd.DataFrame([row])], ignore_index=True), row a dict with
\* the distinct keys rowcols.  Equal column indexes: the row is appended.
\* Otherwise the frames are reindexed to the union of the labels (df's, then
\* the row's new ones), which raises InvalidIndexError when df's labels are
\* not unique.
ConcatRow(df, rowcols, rowvals) ==
  IF df.cols = rowcols
  THEN [ok |-> TRUE, df |-> [df EXCEPT !.rows = Append(@, rowvals)]]
  ELSE IF ~IsUnique(df.cols)
  THEN [ok |-> FALSE, df |-> df]
  ELSE LET added == NewLabels(df.cols, rowcols)
           cols == df.cols \o added
           pad == [i \in 1..Len(added) |-> NoValue]
       IN [ok |-> TRUE,
           df |-> [cols |-> cols,
                   rows |-> Append(
                     [r \in 1..Len(df.rows) |-> df.rows[r] \o pad],
                     [i \in 1..Len(cols) |-> RowValue(rowcols, rowvals, cols[i])])]]

\* df[name] = value, value a function from row number to cell: every column
\* labelled name is overwritten, or a new last column is added.
SetColumn(df, name, value) ==
  IF HasCol(df, name)
  THEN [df EXCEPT !.rows =
          [r \in 1..Len(df.rows) |->
            [i \in 1..Len(df.cols) |->
              IF df.cols[i] = name THEN value[r] ELSE df.rows[r][i]]]]
  ELSE [cols |-> Append(df.cols, name),
        rows |-> [r \in 1..Len(df.rows) |-> Append(df.rows[r], value[r])]]

\* A reset that goes back to a table without columns.
Truncate_DropsColumns(df) == [cols |-> <<>>, rows |-> <<>>]

\* df.iloc[0:0]
Truncate(df) == [df EXCEPT !.rows = <<>>]

\* df.iloc[:-1]
DropLastRow(df) == [df EXCEPT !.rows = SubSeq(@, 1, Len(@) - 1)]

\* df.drop(columns=[name]): every column labelled name goes.
DropColumn(df, name) ==
  LET keep == {i \in 1..Len(df.cols) : df.cols[i] # name}
  IN [cols |-> Pick(df.cols, keep, 1),
      rows |-> [r \in 1..Len(df.rows) |-> Pick(df.rows[r], keep, 1)]]

\* df.rename(columns={old: new}): every column labelled old; a label that is
\* no column (None, from an empty select box) renames nothing.
Rename(df, old, new) ==
  [df EXCEPT !.cols = [i \in 1..Len(df.cols) |->
                         IF df.cols[i] = old THEN new ELSE df.cols[i]]]

\* The positions, in order, that df[labels] takes: for each label in turn,
\* every column of df that carries it.
RECURSIVE TakePositions(_, _, _)
TakePositions(cols, labels, i) ==
  IF i > Len(labels) THEN <<>>
  ELSE Pick([j \in 1..Len(cols) |-> j], Positions(cols, labels[i]), 1)
         \o TakePositions(cols, labels, i + 1)

\* df[labels], labels a list of column labels.
SelectColumns(df, labels) ==
  LET take == TakePositions(df.cols, labels, 1)
  IN [cols |-> [i \in 1..Len(take) |-> df.cols[take[i]]],
      rows |-> [r \in 1..Len(df.rows) |->
                 [i \in 1..Len(take) |-> df.rows[r][take[i]]]]]

IsMonotonic(cols) ==
  \A i \in 1..Len(cols) - 1 : NameRank(cols[i]) <= NameRank(cols[i + 1])

\* Index.get_loc(name) for a label of the index: the position (here from 1)
\* of a label that occurs once; for a repeated label a slice when the index
\* is monotonic increasing and a boolean mask otherwise.
GetLoc(cols, name) ==
  LET at == Positions(cols, name)
  IN IF Cardinality(at) = 1
     THEN [kind |-> "int", idx |-> CHOOSE i \in at : TRUE]
     ELSE IF IsMonotonic(cols)
     THEN [kind |-> "slice", idx |-> 0]
     ELSE [kind |-> "mask", idx |-> 0]

\* ----------------------------------------------------------- session state

VARIABLES
  data,          \* st.session_state["<swg>_data"], one frame per unit
  limits,        \* st.session_state.limits
  table_locked,  \* st.session_state.table_locked
  history,       \* st.session_state.history
  redo_stack,    \* st.session_state.redo_stack
  active_swg,    \* the "Select SWG Table" select box
  op,            \* the request the last script run served
  msg,           \* the message that run showed for it
  history_src,   \* for each history entry, the unit whose table it copies
  redo_src,      \* the same for redo_stack
  shared,        \* the pairs of places of the session that hold one and the
                 \* same DataFrame object
  runs           \* script runs served so far

vars ==
  << data, limits, table_locked, history, redo_stack, active_swg, op, msg,
     history_src, redo_src, shared, runs >>

\* The part of the session the undo and edit handlers work on.
Session ==
  [data |-> data, history |-> history, redo_stack |-> redo_stack,
   shared |-> shared]

\* The key of a unit's table in st.session_state.
DataKey(swg) == swg \o "_data"

\* The keys init_session_state looks after.
SessionKeys ==
  {DataKey(swg) : swg \in Units} \cup
  {"limits", "table_locked", "history", "redo_stack"}

\* st.session_state as a mapping from these keys.
session_state ==
  [key \in SessionKeys |->
     CASE key = "limits" -> limits
       [] key = "table_locked" -> table_locked
       [] key = "history" -> history
       [] key = "redo_stack" -> redo_stack
       [] OTHER -> data[CHOOSE swg \in Units : DataKey(swg) = key]]

\* What init_session_state assigns to a key.
Created(key) ==
  CASE key = "limits" ->
         [power |-> DEFAULT_LIMITS.power, soc |-> DEFAULT_LIMITS.soc]
    [] key = "table_locked" -> FALSE
    [] key = "history" -> <<>>
    [] key = "redo_stack" -> <<>>
    [] OTHER ->
         LET swg == CHOOSE u \in Units : DataKey(u) = key
         IN EmptyFrame(<<swg \o "_DateTime", swg \o "_Power(MW)", swg \o "_SOC(%)">>)

\* init_session_state assigning every key, present or not.
init_session_state_Overwrites(ss) ==
  [key \in DOMAIN ss \cup SessionKeys |->
     IF key \in SessionKeys THEN Created(key) ELSE ss[key]]

\* init_session_state() on the session mapping ss, which holds any of the
\* keys or none.
init_session_state(ss) ==
  [key \in DOMAIN ss \cup SessionKeys |->
     IF key \in DOMAIN ss THEN ss[key] ELSE Created(key)]

\* A new session: init_session_state on a session_state without keys.
Init ==
  /\ LET ss == init_session_state(<<>>)
     IN /\ data = [swg \in Units |-> ss[DataKey(swg)]]
        /\ limits = ss["limits"]
        /\ table_locked = ss["table_locked"]
        /\ history = ss["history"]
        /\ redo_stack = ss["redo_stack"]
  /\ active_swg = SWG_LIST[1]
  /\ op = "start"
  /\ msg = ""
  /\ history_src = <<>>
  /\ redo_src = <<>>
  /\ shared = {}
  /\ runs = 0

\* -------------------------------------------------------------- validation

\* validate_input with the bounds taken as exclusive.
validate_input_Exclusive(power, soc, lim) ==
  IF power <= lim.power.min \/ power >= lim.power.max
  THEN "Power must be between"
  ELSE IF soc <= lim.soc.min \/ soc >= lim.soc.max
  THEN "SOC must be between"
  ELSE ""

\* validate_input reading the compiled-in limits, not the session's.
validate_input_DefaultLimits(power, soc, lim) ==
  IF power < DEFAULT_LIMITS.power.min \/ power > DEFAULT_LIMITS.power.max
  THEN "Power must be between"
  ELSE IF soc < DEFAULT_LIMITS.soc.min \/ soc > DEFAULT_LIMITS.soc.max
  THEN "SOC must be between"
  ELSE ""

\* validate_input: the message, "" when the reading is accepted.
validate_input(power, soc, lim) ==
  IF power < lim.power.min \/ power > lim.power.max
  THEN "Power must be between"
  ELSE IF soc < lim.soc.min \/ soc > lim.soc.max
  THEN "SOC must be between"
  ELSE ""

\* insert_swg_row: the frame after the concat, ok false when it raises.
insert_swg_row(df, swg, power, soc, now) ==
  ConcatRow(df, CanonicalCols(swg), <<Timestamp(now), Num(power), Num(soc)>>)

\* format_for_preview raises for a unit whose non-empty table carries the
\* DateTime label more than once: df[dt_col] is then a frame, which
\* pd.to_datetime cannot assemble.  The script stops before Table Management.
PreviewOk(d) ==
  \A swg \in Units :
    ~IsEmpty(d[swg]) => Cardinality(Positions(d[swg].cols, DateTimeCol(swg))) <= 1

\* ---------------------------------------------------------- object identity
\* The session holds references to DataFrame objects: one under each unit's
\* key and one in each position of the two lists.  S.shared records which of
\* these places hold the same object, as two-element sets of places.

Live(key) == <<"live", key, 0>>

HistorySlot(i) == <<"history", "", i>>

RedoSlot(i) == <<"redo_stack", "", i>>

\* The places that hold the object place h holds, h itself left out.
Class(h, sh) == {x \in UNION sh : {h, x} \in sh}

\* A copy that is the object it was asked to copy.
copy_SameObject(src, new, sh) == {{new, x} : x \in Class(src, sh) \cup {src}}

\* df.copy(): place new receives a new object with the values of the one at
\* src; the sharing this adds is none.
copy(src, new, sh) == {}

\* Place h is given another object, or goes away.
Forget(h, sh) == {p \in sh : h \notin p}

\* list.pop() assigned to a key: the object of place from is now held by
\* place to, and by from no more.
Rebind(from, to, sh) ==
  {IF from \in p THEN (p \ {from}) \cup {to} ELSE p : p \in Forget(to, sh)}

\* st.session_state[key] = <a new object>
Replace(S, key, value) ==
  [S EXCEPT !.data[key] = value, !.shared = Forget(Live(key), @)]

\* st.session_state[key][name] = ...: the object under key is changed, and
\* with it what every place holding that object shows.
AssignInPlace(S, key, value) ==
  LET same == Class(Live(key), S.shared)
  IN [S EXCEPT
        !.data = [u \in Units |->
                    IF u = key \/ Live(u) \in same THEN value ELSE S.data[u]],
        !.history = [i \in 1..Len(S.history) |->
                       IF HistorySlot(i) \in same THEN value ELSE S.history[i]],
        !.redo_stack = [i \in 1..Len(S.redo_stack) |->
                          IF RedoSlot(i) \in same THEN value ELSE S.redo_stack[i]]]

\* --------------------------------------------------------------- undo, redo

\* save_history_snapshot(df), df being the table under key (every caller
\* passes ACTIVE_DF).
save_history_snapshot(S, key) ==
  LET pushed == S.shared \cup copy(Live(key), HistorySlot(Len(S.history) + 1),
                                   S.shared)
  IN [S EXCEPT !.history = Append(@, S.data[key]),
               !.redo_stack = <<>>,
               !.shared = {p \in pushed : \A h \in p : h[1] # "redo_stack"}]

\* The sharing after redo_stack.append(table.copy()); table = history.pop()
UndoShared(S, key) ==
  LET top == HistorySlot(Len(S.history))
      pushed == S.shared \cup copy(Live(key), RedoSlot(Len(S.redo_stack) + 1),
                                   S.shared)
  IN Rebind(top, Live(key), pushed)

\* The sharing after history.append(table.copy()); table = redo_stack.pop()
RedoShared(S, key) ==
  LET top == RedoSlot(Len(S.redo_stack))
      pushed == S.shared \cup copy(Live(key), HistorySlot(Len(S.history) + 1),
                                   S.shared)
  IN Rebind(top, Live(key), pushed)

\* Undo putting the restored snapshot, not the table it replaces, on the redo
\* stack.
UndoHandler_PushesRestored(S, key) ==
  IF S.history # <<>>
  THEN [data |-> [S.data EXCEPT ![key] = S.history[Len(S.history)]],
        history |-> SubSeq(S.history, 1, Len(S.history) - 1),
        redo_stack |-> Append(S.redo_stack, S.history[Len(S.history)]),
        shared |-> UndoShared(S, key)]
  ELSE S

\* Undo leaving the restored snapshot on the history stack.
UndoHandler_KeepsEntry(S, key) ==
  IF S.history # <<>>
  THEN [data |-> [S.data EXCEPT ![key] = S.history[Len(S.history)]],
        history |-> S.history,
        redo_stack |-> Append(S.redo_stack, S.data[key]),
        shared |-> UndoShared(S, key)]
  ELSE S

\* The Undo button, on the active table's key.
UndoHandler(S, key) ==
  IF S.history # <<>>
  THEN [data |-> [S.data EXCEPT ![key] = S.history[Len(S.history)]],
        history |-> SubSeq(S.history, 1, Len(S.history) - 1),
        redo_stack |-> Append(S.redo_stack, S.data[key]),
        shared |-> UndoShared(S, key)]
  ELSE S

\* Redo copying the active table to the history stack before it looks at the
\* redo stack.
RedoHandler_AppendsFirst(S, key) ==
  IF S.redo_stack # <<>>
  THEN [data |-> [S.data EXCEPT ![key] = S.redo_stack[Len(S.redo_stack)]],
        history |-> Append(S.history, S.data[key]),
        redo_stack |-> SubSeq(S.redo_stack, 1, Len(S.redo_stack) - 1),
        shared |-> RedoShared(S, key)]
  ELSE [S EXCEPT !.history = Append(@, S.data[key])]

\* The Redo button.
RedoHandler(S, key) ==
  IF S.redo_stack # <<>>
  THEN [data |-> [S.data EXCEPT ![key] = S.redo_stack[Len(S.redo_stack)]],
        history |-> Append(S.history, S.data[key]),
        redo_stack |-> SubSeq(S.redo_stack, 1, Len(S.redo_stack) - 1),
        shared |-> RedoShared(S, key)]
  ELSE S

\* ------------------------------------------------------------ edit handlers
\* Each takes the session and the active key and gives the session after the
\* button's code, with the message shown.

Result(S, m) ==
  [data |-> S.data, history |-> S.history, redo_stack |-> S.redo_stack,
   shared |-> S.shared, msg |-> m]

\* The keys of {col: None for col in cols}: each label once, in the order of
\* its first column.
DictKeys(cols) ==
  Pick(cols, {i \in 1..Len(cols) : \A j \in 1..(i - 1) : cols[j] # cols[i]}, 1)

\* Insert Empty Row working on the first unit's table, whichever is active.
InsertRowHandler_FirstTable(S, key) ==
  LET first == SWG_LIST[1]
      df == S.data[first]
      snap == save_history_snapshot(S, first)
      keys == DictKeys(df.cols)
      cat == ConcatRow(df, keys, [i \in 1..Len(keys) |-> NoValue])
  IN IF cat.ok
     THEN Result(Replace(snap, first, cat.df), "Empty row inserted")
     ELSE Result(snap, "Exception")

InsertRowHandler(S, key) ==
  LET df == S.data[key]
      snap == save_history_snapshot(S, key)
      keys == DictKeys(df.cols)
      cat == ConcatRow(df, keys, [i \in 1..Len(keys) |-> NoValue])
  IN IF cat.ok
     THEN Result(Replace(snap, key, cat.df), "Empty row inserted")
     ELSE Result(snap, "Exception")

DeleteLastRowHandler(S, key) ==
  LET df == S.data[key]
      snap == save_history_snapshot(S, key)
  IN Result(Replace(snap, key, DropLastRow(df)), "Last row deleted")

InsertColumnHandler(S, key, new_col_name) ==
  LET df == S.data[key]
      snap == save_history_snapshot(S, key)
  IN Result(AssignInPlace(snap, key,
               SetColumn(df, new_col_name, [r \in 1..Len(df.rows) |-> NoValue])),
            "Column inserted")

DeleteColumnHandler(S, key, col_to_delete) ==
  LET df == S.data[key]
      snap == save_history_snapshot(S, key)
  IN Result(Replace(snap, key, DropColumn(df, col_to_delete)),
            "Column deleted")

RenameColumnHandler(S, key, col_to_rename, new_name) ==
  LET df == S.data[key]
      snap == save_history_snapshot(S, key)
  IN Result(Replace(snap, key, Rename(df, col_to_rename, new_name)),
            "Column renamed")

\* Move Left (dir = -1) and Move Right (dir = 1) with the column at loc.
\* The list index idx + dir wraps from before the first element to the last
\* and is an IndexError past the last.
MoveColumnHandler(S, key, loc, dir) ==
  LET df == S.data[key]
      snap == save_history_snapshot(S, key)
      other == IF loc.idx + dir = 0 THEN Len(df.cols) ELSE loc.idx + dir
  IN IF loc.kind = "int" /\ other <= Len(df.cols)
     THEN Result(Replace(snap, key,
                    SelectColumns(df, Swap(df.cols, other, loc.idx))),
                 IF dir < 0 THEN "Column moved left" ELSE "Column moved right")
     ELSE Result(snap, "Exception")

\* The merged text built from the second column first.
MergeColumnsHandler_Reversed(S, key, col1, col2, merged_name, separator) ==
  LET df == S.data[key]
      snap == save_history_snapshot(S, key)
      single(c) == Cardinality(Positions(df.cols, c)) = 1
      at(c) == CHOOSE i \in Positions(df.cols, c) : TRUE
  IN IF single(col1) /\ single(col2)
     THEN Result(AssignInPlace(snap, key,
                    SetColumn(df, merged_name,
                      [r \in 1..Len(df.rows) |->
                        Text(AsTypeStr(df.rows[r][at(col2)]) \o <<separator>>
                               \o AsTypeStr(df.rows[r][at(col1)]))])),
                 "Columns merged")
     ELSE Result(snap, "Exception")

\* ACTIVE_DF[col] of a label that is no column (None) raises KeyError; of a
\* label several columns carry it is a frame, and the sum cannot be assigned
\* to one column.  Both raise after the snapshot.
MergeColumnsHandler(S, key, col1, col2, merged_name, separator) ==
  LET df == S.data[key]
      snap == save_history_snapshot(S, key)
      single(c) == Cardinality(Positions(df.cols, c)) = 1
      at(c) == CHOOSE i \in Positions(df.cols, c) : TRUE
  IN IF single(col1) /\ single(col2)
     THEN Result(AssignInPlace(snap, key,
                    SetColumn(df, merged_name,
                      [r \in 1..Len(df.rows) |->
                        Text(AsTypeStr(df.rows[r][at(col1)]) \o <<separator>>
                               \o AsTypeStr(df.rows[r][at(col2)]))])),
                 "Columns merged")
     ELSE Result(snap, "Exception")

\* ------------------------------------------- existing data validation scan

\* A cell of kind k compared with a number: a float compares, a missing value
\* compares false, a timestamp or a string raises TypeError.
Comparable(cell) == cell.k \in {"num", "na"}

Beyond(cell, lim) == cell.k = "num" /\ (cell.n < lim.min \/ cell.n > lim.max)

\* (df[name] < lim.min).any() or (df[name] > lim.max).any(): "raise" when the
\* label is no column (KeyError), when several columns carry it (the
\* comparison is a frame and its any() a Series without truth value), or when
\* a cell does not compare with a number.
ColumnViolation(df, name, lim) ==
  LET at == Positions(df.cols, name)
      col == CHOOSE i \in at : TRUE
  IN IF Cardinality(at) # 1 THEN "raise"
     ELSE IF \E r \in 1..Len(df.rows) : ~Comparable(df.rows[r][col]) THEN "raise"
     ELSE IF \E r \in 1..Len(df.rows) : Beyond(df.rows[r][col], lim) THEN "yes"
     ELSE "no"

\* The loop of check_existing_data_violations from unit i on: the message it
\* ends in, Exception when it raises.
RECURSIVE ScanFrom(_, _, _)
ScanFrom(d, lim, i) ==
  IF i > Len(SWG_LIST) THEN "All existing data is within the current limits."
  ELSE LET swg == SWG_LIST[i]
           df == d[swg]
           power_violation == ColumnViolation(df, PowerCol(swg), lim.power)
           soc_violation == ColumnViolation(df, SOCCol(swg), lim.soc)
       IN IF IsEmpty(df) THEN ScanFrom(d, lim, i + 1)
          ELSE IF power_violation = "raise" \/ soc_violation = "raise"
          THEN "Exception"
          ELSE IF power_violation = "yes" \/ soc_violation = "yes"
          THEN "contains values outside current limits."
          ELSE ScanFrom(d, lim, i + 1)

check_existing_data_violations(d, lim) == ScanFrom(d, lim, 1)

\* ------------------------------------------------------------------- export

\* pd.to_datetime(errors="coerce"), the timezone dropped, then strftime: a
\* timestamp gives its local text, a float the text of that many nanoseconds
\* after the epoch, anything else NaN.
FormatDateTime(cell) ==
  CASE cell.k = "ts" -> Text(<<"01/01/2026 12:00:00 AM">>)
    [] cell.k = "num" -> Text(<<"01/01/1970 12:00:00 AM">>)
    [] OTHER -> NoValue

\* The body of the export loop for one unit, on the frame df it is given.
ExportUnit(df, swg) ==
  LET dt_col == DateTimeCol(swg)
      at == CHOOSE i \in Positions(df.cols, dt_col) : TRUE
  IN IF HasCol(df, dt_col) /\ ~IsEmpty(df)
     THEN SetColumn(df, dt_col,
                    [r \in 1..Len(df.rows) |-> FormatDateTime(df.rows[r][at])])
     ELSE df

\* The same to_datetime call as format_for_preview, raising the same way.
ExportUnitOk(df, swg) ==
  ~IsEmpty(df) => Cardinality(Positions(df.cols, DateTimeCol(swg))) <= 1

\* The shortest table's length taken for the longest.
MaxOf_Shortest(S) == CHOOSE x \in S : \A y \in S : x <= y

MaxOf(S) == CHOOSE x \in S : \A y \in S : y <= x

\* df.reindex(range(length))
pad_table(df, length) ==
  [df EXCEPT !.rows =
     [r \in 1..length |->
        IF r <= Len(df.rows) THEN df.rows[r]
        ELSE [i \in 1..Len(df.cols) |-> NoValue]]]

RECURSIVE JoinCols(_, _)
JoinCols(frames, i) ==
  IF i > Len(frames) THEN <<>> ELSE frames[i].cols \o JoinCols(frames, i + 1)

RECURSIVE JoinRow(_, _, _)
JoinRow(frames, r, i) ==
  IF i > Len(frames) THEN <<>>
  ELSE frames[i].rows[r] \o JoinRow(frames, r, i + 1)

\* pd.concat(frames, axis=1) of frames over the same row index.
ConcatColumns(frames, length) ==
  [cols |-> JoinCols(frames, 1),
   rows |-> [r \in 1..length |-> JoinRow(frames, r, 1)]]

\* The export loop working on the session's frames themselves.
prepare_export_dataframe_NoCopy(d) ==
  LET prepared == [i \in 1..Len(SWG_LIST) |-> ExportUnit(d[SWG_LIST[i]], SWG_LIST[i])]
      max_len == MaxOf({Len(prepared[i].rows) : i \in 1..Len(prepared)})
  IN [ok |-> \A swg \in Units : ExportUnitOk(d[swg], swg),
      session |-> [swg \in Units |-> ExportUnit(d[swg], swg)],
      table |-> ConcatColumns(
                  [i \in 1..Len(prepared) |-> pad_table(prepared[i], max_len)],
                  max_len)]

\* prepare_export_dataframe on session tables d: ok false when it raises,
\* session the tables the session holds afterwards, table the frame returned.
prepare_export_dataframe(d) ==
  LET prepared == [i \in 1..Len(SWG_LIST) |-> ExportUnit(d[SWG_LIST[i]], SWG_LIST[i])]
      max_len == MaxOf({Len(prepared[i].rows) : i \in 1..Len(prepared)})
  IN [ok |-> \A swg \in Units : ExportUnitOk(d[swg], swg),
      session |-> d,
      table |-> ConcatColumns(
                  [i \in 1..Len(prepared) |-> pad_table(prepared[i], max_len)],
                  max_len)]

\* export_df.dropna(how="all").empty: no column, or no row with a value.
NothingToExport(export_df) ==
  \/ Len(export_df.cols) = 0
  \/ \A r \in 1..Len(export_df.rows) :
       \A i \in 1..Len(export_df.cols) : export_df.rows[r][i].k = "na"

\* What the download section can end in.  The CSV button always renders.
\* With openpyxl installed to_excel raises on a timezone-aware timestamp
\* cell; to_json(orient="records") raises on repeated column labels.
DownloadOutcomes(export_df) ==
  IF NothingToExport(export_df) THEN {"No data available to download yet."}
  ELSE (IF IsUnique(export_df.cols) THEN {"CSV and JSON offered"} ELSE {"Exception"})
       \cup (IF \E r \in 1..Len(export_df.rows), i \in 1..Len(export_df.cols) :
                  export_df.rows[r][i].k = "ts"
             THEN {"Exception"} ELSE {})

\* ------------------------------------------------------------------ actions

EditActions ==
  { "Insert New Row", "Delete Last Row", "Insert New Column", "Delete Column",
    "Rename Column", "Move Column Left", "Move Column Right", "Merge Columns" }

\* The operator interacts once more.
CanRun == runs < MaxRuns

\* One more script run, serving request o and showing m for it.
Served(o, m) ==
  /\ op' = o
  /\ msg' = m
  /\ runs' = runs + 1

\* The "Reset All Data" button.
ResetAllData ==
  /\ CanRun
  /\ Served("Reset All Data", "All old records cleared. Please re-enter data.")
  /\ data' = [swg \in Units |-> Truncate(data[swg])]
  /\ shared' = {p \in shared : \A h \in p : h[1] # "live"}
  /\ UNCHANGED << limits, table_locked, history, redo_stack, active_swg,
                  history_src, redo_src >>

\* The "Add SWG-n" button of render_swg_input.
Add(swg, power, soc, now) ==
  LET verdict == validate_input(power, soc, limits)
      cat == insert_swg_row(data[swg], swg, power, soc, now)
  IN /\ CanRun
     /\ \/ /\ verdict # ""
           /\ Served("Add", verdict)
           /\ UNCHANGED << data, shared >>
        \/ /\ verdict = ""
           /\ cat.ok
           /\ Served("Add", "added successfully")
           /\ data' = [data EXCEPT ![swg] = cat.df]
           /\ shared' = Forget(Live(swg), shared)
        \/ /\ verdict = ""
           /\ ~cat.ok
           /\ Served("Add", "Exception")
           /\ UNCHANGED << data, shared >>
     /\ UNCHANGED << limits, table_locked, history, redo_stack, active_swg,
                     history_src, redo_src >>

\* The "Select SWG Table" select box.
SelectSWG(swg) ==
  /\ CanRun
  /\ PreviewOk(data)
  /\ swg # active_swg
  /\ active_swg' = swg
  /\ Served("Select SWG Table", "")
  /\ UNCHANGED << data, limits, table_locked, history, redo_stack,
                  history_src, redo_src, shared >>

\* The "Table Locked" toggle.
ToggleLock ==
  /\ CanRun
  /\ PreviewOk(data)
  /\ table_locked' = ~table_locked
  /\ Served("Table Locked",
            IF table_locked' THEN "Table is locked. Editing is disabled."
            ELSE "Table is unlocked. Editing enabled.")
  /\ UNCHANGED << data, limits, history, redo_stack, active_swg,
                  history_src, redo_src, shared >>

\* The session after a handler that gave r.
Install(r) ==
  /\ data' = r.data
  /\ history' = r.history
  /\ redo_stack' = r.redo_stack
  /\ shared' = r.shared

Undo ==
  /\ CanRun
  /\ PreviewOk(data)
  /\ Install(UndoHandler(Session, active_swg))
  /\ Served("Undo", IF history # <<>> THEN "" ELSE "Nothing to undo")
  /\ IF history # <<>>
     THEN /\ TRUE
          /\ history_src' = SubSeq(history_src, 1, Len(history_src) - 1)
          /\ redo_src' = Append(redo_src, active_swg)
     ELSE UNCHANGED << history_src, redo_src >>
  /\ UNCHANGED << limits, table_locked, active_swg >>

Redo ==
  /\ CanRun
  /\ PreviewOk(data)
  /\ Install(RedoHandler(Session, active_swg))
  /\ Served("Redo", IF redo_stack # <<>> THEN "" ELSE "Nothing to redo")
  /\ IF redo_stack # <<>>
     THEN /\ TRUE
          /\ redo_src' = SubSeq(redo_src, 1, Len(redo_src) - 1)
          /\ history_src' = Append(history_src, active_swg)
     ELSE UNCHANGED << history_src, redo_src >>
  /\ UNCHANGED << limits, table_locked, active_swg >>

\* An edit section's button was clicked and its handler gave r: the handler
\* took one snapshot of the active table.
Edited(action, r) ==
  /\ Served(action, r.msg)
  /\ Install(r)
  /\ history_src' = Append(history_src, active_swg)
  /\ redo_src' = <<>>
  /\ UNCHANGED << limits, table_locked, active_swg >>

\* An edit section that shows a message and no button, or raises.
Shown(action, m) ==
  /\ Served(action, m)
  /\ UNCHANGED << data, limits, table_locked, history, redo_stack, active_swg,
                  history_src, redo_src, shared >>

\* The edit sections entered without a look at the lock.
EditOpen_IgnoresLock == CanRun /\ PreviewOk(data)

\* The script reaches the edit sections with the table unlocked.
EditOpen == CanRun /\ PreviewOk(data) /\ ~table_locked

ACTIVE_DF == data[active_swg]

\* The edit commands: the edit sections and the editable grid.
EditCommands == EditActions \cup {"Editable Table"}

\* With the table locked no edit section is entered, whatever the selector
\* holds, and the grid is disabled.
EditLocked(action) ==
  /\ CanRun
  /\ PreviewOk(data)
  /\ table_locked
  /\ Shown(action, "Table is locked. Editing is disabled.")

\* The operator edits cells of st.data_editor: the script is given the
\* edited copy as the call's value and drops it.
GridEdit ==
  /\ EditOpen
  /\ Shown("Editable Table", "")

InsertRow ==
  /\ EditOpen
  /\ Edited("Insert New Row", InsertRowHandler(Session, active_swg))

DeleteLastRow ==
  /\ EditOpen
  /\ IF IsEmpty(ACTIVE_DF)
     THEN Shown("Delete Last Row", "Table is empty")
     ELSE Edited("Delete Last Row", DeleteLastRowHandler(Session, active_swg))

InsertColumn(new_col_name) ==
  /\ EditOpen
  /\ Edited("Insert New Column",
            InsertColumnHandler(Session, active_swg, new_col_name))

\* The column a select box over the active table's columns holds: one of the
\* labels, None for a table without columns.
Selectable == {ACTIVE_DF.cols[i] : i \in 1..Len(ACTIVE_DF.cols)}

None == "None"

DeleteColumn ==
  /\ EditOpen
  /\ IF Len(ACTIVE_DF.cols) = 0
     THEN Shown("Delete Column", "No columns to delete")
     ELSE \E col_to_delete \in Selectable :
            Edited("Delete Column",
                   DeleteColumnHandler(Session, active_swg, col_to_delete))

RenameColumn(new_name) ==
  /\ EditOpen
  /\ \E col_to_rename \in (IF Selectable = {} THEN {None} ELSE Selectable) :
       Edited("Rename Column",
              RenameColumnHandler(Session, active_swg, col_to_rename, new_name))

\* The boundary test taken out.
AtBoundary_Never(idx, dir, n) == FALSE

\* idx == 0 for Move Left, idx == len(ACTIVE_DF.columns) - 1 for Move Right,
\* positions counted from 1.
AtBoundary(idx, dir, n) == idx = (IF dir < 0 THEN 1 ELSE n)

\* Move Column Left (dir = -1) and Move Column Right (dir = 1) with col in the
\* select box.  A mask compared with the boundary has no truth value
\* (ValueError); a slice is unequal to the boundary and raises TypeError in
\* the handler's arithmetic.
MoveColumnOn(action, dir, warning, col) ==
  LET loc == GetLoc(ACTIVE_DF.cols, col)
  IN /\ EditOpen
     /\ CASE loc.kind = "mask" -> Shown(action, "Exception")
          [] loc.kind = "int" /\ AtBoundary(loc.idx, dir, Len(ACTIVE_DF.cols)) ->
               Shown(action, warning)
          [] OTHER ->
               Edited(action, MoveColumnHandler(Session, active_swg, loc, dir))

\* The select box of a table without columns holds None: get_loc(None) raises
\* KeyError.
MoveColumn(action, dir, warning) ==
  /\ EditOpen
  /\ IF Selectable = {}
     THEN Shown(action, "Exception")
     ELSE \E col \in Selectable : MoveColumnOn(action, dir, warning, col)

MoveColumnLeft ==
  MoveColumn("Move Column Left", -1, "Column already at leftmost position")

MoveColumnRight ==
  MoveColumn("Move Column Right", 1, "Column already at rightmost position")

MergeColumnsOn(col1, col2, merged_name, separator) ==
  /\ EditOpen
  /\ Edited("Merge Columns",
            MergeColumnsHandler(Session, active_swg, col1, col2,
                                merged_name, separator))

MergeColumns(merged_name, separator) ==
  /\ EditOpen
  /\ \E col1, col2 \in (IF Selectable = {} THEN {None} ELSE Selectable) :
       MergeColumnsOn(col1, col2, merged_name, separator)

\* The check letting equal bounds through.
InvalidRange_Strict(lo, hi) == lo > hi

\* The check of the two typed bounds before an update.
InvalidRange(lo, hi) == lo >= hi

\* The two assignments with the bounds exchanged.
NewLimits_Swapped(lo, hi) == [min |-> hi, max |-> lo]

\* The two assignments of an accepted update.
NewLimits(lo, hi) == [min |-> lo, max |-> hi]

\* "Apply Power Limits" / "Apply SOC Limits" for field "power" / "soc".
ApplyLimits(field, action, lo, hi) ==
  /\ CanRun
  /\ PreviewOk(data)
  /\ IF InvalidRange(lo, hi)
     THEN /\ Served(action, "Minimum must be less than Maximum.")
          /\ UNCHANGED limits
     ELSE /\ Served(action, "limits updated successfully.")
          /\ limits' = [limits EXCEPT ![field] = NewLimits(lo, hi)]
  /\ UNCHANGED << data, table_locked, history, redo_stack, active_swg,
                  history_src, redo_src, shared >>

\* A reset that puts both fields back.
ResetLimits_BothFields(field, action) ==
  /\ CanRun
  /\ PreviewOk(data)
  /\ Served(action, "limits reset to default.")
  /\ limits' = DEFAULT_LIMITS
  /\ UNCHANGED << data, table_locked, history, redo_stack, active_swg,
                  history_src, redo_src, shared >>

\* "Reset Power Limits" / "Reset SOC Limits".  DEFAULT_LIMITS is bound anew
\* by every script run before any button is served, so the reset always
\* reads the literal of lines 34-37.
ResetLimits(field, action) ==
  /\ CanRun
  /\ PreviewOk(data)
  /\ Served(action, "limits reset to default.")
  /\ limits' = [limits EXCEPT ![field] = DEFAULT_LIMITS[field]]
  /\ UNCHANGED << data, table_locked, history, redo_stack, active_swg,
                  history_src, redo_src, shared >>

\* The "Download CSV" button: shown once the script has come through the scan
\* and the export table has something in it.  The click is one more script
\* run, which like every run builds the export table again.
DownloadCSV ==
  LET built == prepare_export_dataframe(data)
  IN /\ CanRun
     /\ PreviewOk(data)
     /\ check_existing_data_violations(data, limits) # "Exception"
     /\ built.ok
     /\ ~NothingToExport(built.table)
     /\ data' = built.session
     /\ Served("Download CSV", "")
     /\ UNCHANGED << limits, table_locked, history, redo_stack, active_swg,
                     history_src, redo_src, shared >>

Next ==
  \/ ResetAllData
  \/ \E swg \in Units, power \in PowerInputs, soc \in SOCInputs, now \in ClockValues :
       Add(swg, power, soc, now)
  \/ \E swg \in Units : SelectSWG(swg)
  \/ ToggleLock
  \/ Undo
  \/ Redo
  \/ \E action \in EditCommands : EditLocked(action)
  \/ GridEdit
  \/ InsertRow
  \/ DeleteLastRow
  \/ \E name \in TypedNames(active_swg) : InsertColumn(name)
  \/ DeleteColumn
  \/ \E name \in TypedNames(active_swg) : RenameColumn(name)
  \/ MoveColumnLeft
  \/ MoveColumnRight
  \/ \E name \in MergedNames, sep \in Separators : MergeColumns(name, sep)
  \/ \E lo \in PowerMinInputs, hi \in PowerMaxInputs :
       ApplyLimits("power", "Apply Power Limits", lo, hi)
  \/ ResetLimits("power", "Reset Power Limits")
  \/ \E lo \in SOCMinInputs, hi \in SOCMaxInputs :
       ApplyLimits("soc", "Apply SOC Limits", lo, hi)
  \/ ResetLimits("soc", "Reset SOC Limits")
  \/ DownloadCSV

Spec == Init /\ [][Next]_vars

\* ------------------------------------------------- sessions with a past
\* A session that has already served requests on SWG1: an empty row inserted
\* into the fresh table, then its columns deleted one after the other.  Each
\* is the session the handlers leave, snapshots included.

FreshSession ==
  [data |-> [swg \in Units |-> EmptyFrame(CanonicalCols(swg))],
   history |-> <<>>, redo_stack |-> <<>>, shared |-> {}]

RowInserted == InsertRowHandler(FreshSession, SWG_LIST[1])

OneColumnDeleted ==
  DeleteColumnHandler(RowInserted, SWG_LIST[1], DateTimeCol(SWG_LIST[1]))

TwoColumnsDeleted ==
  DeleteColumnHandler(OneColumnDeleted, SWG_LIST[1], PowerCol(SWG_LIST[1]))

AllColumnsDeleted ==
  DeleteColumnHandler(TwoColumnsDeleted, SWG_LIST[1], SOCCol(SWG_LIST[1]))

\* Or: a reading added to SWG1, then a column inserted under the text
\* field's default name.
ReadingAdded ==
  [FreshSession EXCEPT !.data[SWG_LIST[1]] =
     insert_swg_row(@, SWG_LIST[1], 200, 100, 1).df]

ColumnInserted == InsertColumnHandler(ReadingAdded, SWG_LIST[1], "New_Column_4")

EditedSessions ==
  { <<"Insert New Row", RowInserted>>, <<"Delete Column", OneColumnDeleted>>,
    <<"Delete Column", TwoColumnsDeleted>>, <<"Delete Column", AllColumnsDeleted>>,
    <<"Insert New Column", ColumnInserted>> }

InitEdited ==
  \E past \in EditedSessions :
    /\ data = past[2].data
    /\ history = past[2].history
    /\ redo_stack = past[2].redo_stack
    /\ op = past[1]
    /\ msg = past[2].msg
    /\ history_src = [i \in 1..Len(past[2].history) |-> SWG_LIST[1]]
    /\ redo_src = <<>>
    /\ shared = past[2].shared
    /\ limits = DEFAULT_LIMITS
    /\ table_locked = FALSE
    /\ active_swg = SWG_LIST[1]
    /\ runs = 1

SpecEdited == InitEdited /\ [][Next]_vars

\* ------------------------------------------------------------------- claims

AcceptedEditMessages ==
  { "Empty row inserted", "Last row deleted", "Column inserted",
    "Column deleted", "Column renamed", "Column moved left",
    "Column moved right", "Columns merged" }

\* The run just served changed a table on the operator's request: an accepted
\* Add, Reset All Data, or an edit command that went through.
MutatingEditServed ==
  \/ op = "Add" /\ msg = "added successfully"
  \/ op = "Reset All Data"
  \/ op \in EditActions /\ msg \in AcceptedEditMessages

\* C1: after any new mutating edit of a table (accepted Add, structural edit
\* command, Reset All Data) the redo stack is empty.
C1_RedoEmptyAfterMutatingEdit == MutatingEditServed => redo_stack = <<>>

\* C2: in a state with a non-empty history stack, Undo and then Redo, both on
\* the active table, leave that table exactly as it was before the Undo.
C2_UndoRedoRoundTrip ==
  history # <<>> =>
    RedoHandler(UndoHandler(Session, active_swg), active_swg).data[active_swg]
      = data[active_swg]

\* Edit, Undo, Redo were served, and the Undo had changed the table.
C2_RoundTripDone ==
  /\ runs = 3
  /\ op = "Redo"
  /\ msg = ""
  /\ history # <<>>
  /\ history[Len(history)] # data[active_swg]

\* C3: Undo and Redo install into the active table only a snapshot that was
\* taken from that same table.
C3_InstallsOwnSnapshot ==
  [][ /\ (op' = "Undo" /\ msg' = "") => history_src[Len(history_src)] = active_swg
      /\ (op' = "Redo" /\ msg' = "") => redo_src[Len(redo_src)] = active_swg
    ]_vars

\* C4: while the lock flag is set, an edit command changes no table and
\* neither the history nor the redo stack.
C4_LockedEditRejected ==
  [][ (table_locked /\ op' \in EditCommands)
        => UNCHANGED << data, history, redo_stack >> ]_vars

\* An edit command was issued with the lock set.
C4_EditIssuedWhileLocked == table_locked /\ op = "Insert New Row"

\* C5: with table_locked true, no operator action changes the content of any
\* unit table.
C5_LockedTablesUnchanged == [][ table_locked => data' = data ]_vars

\* Both bounds inclusive.
InRange(power, soc, lim) ==
  /\ lim.power.min <= power /\ power <= lim.power.max
  /\ lim.soc.min <= soc /\ soc <= lim.soc.max

\* C6: an Add of a reading passes validation exactly when power and soc lie
\* within the limits in force at that moment, bounds inclusive; otherwise it
\* ends in an out-of-range message.
C6_ValidateAgainstCurrentLimits ==
  [][ op' = "Add" =>
        \A swg \in Units, power \in PowerInputs, soc \in SOCInputs,
           now \in ClockValues :
          Add(swg, power, soc, now) =>
            IF InRange(power, soc, limits)
            THEN msg' \in {"added successfully", "Exception"}
            ELSE msg' \in {"Power must be between", "SOC must be between"}
    ]_vars

\* After a limit update, a reading the default limits accept was refused.
C6_OutcomeFollowsUpdate ==
  /\ limits.power # DEFAULT_LIMITS.power
  /\ op = "Add"
  /\ msg = "Power must be between"

\* C7: applying limits with min >= max ends in an error message and changes
\* neither the limits of either field nor any table nor either stack.
C7_InvalidRangeRejected ==
  [][ op' \in {"Apply Power Limits", "Apply SOC Limits"} =>
        \A lo \in PowerMinInputs \cup SOCMinInputs,
           hi \in PowerMaxInputs \cup SOCMaxInputs :
          ( /\ lo >= hi
            /\ \/ ApplyLimits("power", "Apply Power Limits", lo, hi)
               \/ ApplyLimits("soc", "Apply SOC Limits", lo, hi) )
          => /\ msg' = "Minimum must be less than Maximum."
             /\ UNCHANGED << limits, data, history, redo_stack >>
    ]_vars

\* A failing update was served after an accepted one.
C7_RejectedUpdateServed ==
  /\ op \in {"Apply Power Limits", "Apply SOC Limits"}
  /\ msg = "Minimum must be less than Maximum."
  /\ limits # DEFAULT_LIMITS

\* C8: in every reachable state power.min < power.max and soc.min < soc.max.
C8_LimitsOrdered ==
  /\ limits.power.min < limits.power.max
  /\ limits.soc.min < limits.soc.max

\* Both fields were updated.
C8_BothFieldsUpdated ==
  /\ limits.power # DEFAULT_LIMITS.power
  /\ limits.soc # DEFAULT_LIMITS.soc

\* C9: in every reachable state each unit table has pairwise distinct column
\* names.
C9_ColumnNamesUnique == \A swg \in Units : IsUnique(data[swg].cols)

\* C10: Insert Column with a name that is already a column of the active table
\* leaves the tables and both stacks unchanged.
C10_DuplicateInsertRejected ==
  [][ \A name \in TypedNames(active_swg) :
        (HasCol(ACTIVE_DF, name) /\ InsertColumn(name))
          => UNCHANGED << data, history, redo_stack >> ]_vars

\* C11: Undo with an empty history stack reports 'Nothing to undo', Redo with
\* an empty redo stack reports 'Nothing to redo'; tables, both stacks, limits
\* and the lock flag stay as they are.
C11_EmptyStackReported ==
  [][ /\ (op' = "Undo" /\ history = <<>>) =>
           /\ msg' = "Nothing to undo"
           /\ UNCHANGED << data, history, redo_stack, limits, table_locked >>
      /\ (op' = "Redo" /\ redo_stack = <<>>) =>
           /\ msg' = "Nothing to redo"
           /\ UNCHANGED << data, history, redo_stack, limits, table_locked >>
    ]_vars

\* Redo was refused in a session that has an edit on its history stack.
C11_RedoRefusedAfterEdit ==
  /\ op = "Redo"
  /\ msg = "Nothing to redo"
  /\ history # <<>>

\* C12: with a non-empty history stack Undo appends the active table to the
\* redo stack, removes the last history entry and makes it the active table;
\* Redo is the mirror image; the other entries and the sum of the two stack
\* lengths stay.
C12_LifoTransfers ==
  [][ /\ (op' = "Undo" /\ history # <<>>) =>
           /\ redo_stack' = Append(redo_stack, data[active_swg])
           /\ history' = SubSeq(history, 1, Len(history) - 1)
           /\ data' = [data EXCEPT ![active_swg] = history[Len(history)]]
           /\ Len(history') + Len(redo_stack') = Len(history) + Len(redo_stack)
      /\ (op' = "Redo" /\ redo_stack # <<>>) =>
           /\ history' = Append(history, data[active_swg])
           /\ redo_stack' = SubSeq(redo_stack, 1, Len(redo_stack) - 1)
           /\ data' = [data EXCEPT ![active_swg] = redo_stack[Len(redo_stack)]]
           /\ Len(history') + Len(redo_stack') = Len(history) + Len(redo_stack)
    ]_vars

\* An Undo took the newer of two snapshots and left the older one.
C12_UndoLeftOlderEntry ==
  /\ op = "Undo"
  /\ msg = ""
  /\ Len(history) = 1
  /\ Len(redo_stack) = 1

\* C13: an accepted Add appends exactly one row at the end of that unit's
\* table: the columns and their order stay, the earlier rows keep their values
\* and order, the other tables stay.
C13_AddAppendsOneRow ==
  [][ (op' = "Add" /\ msg' = "added successfully") =>
        \E swg \in Units :
          /\ data'[swg].cols = data[swg].cols
          /\ Len(data'[swg].rows) = Len(data[swg].rows) + 1
          /\ SubSeq(data'[swg].rows, 1, Len(data[swg].rows)) = data[swg].rows
          /\ \A other \in Units \ {swg} : data'[other] = data[other]
    ]_vars

\* st.dataframe and st.data_editor hand the frame to Arrow, which on some
\* builds refuses a frame with a repeated column label: the tables every
\* build renders.
RendersEverywhere(d) == \A swg \in Units : IsUnique(d[swg].cols)

\* The last script run came as far as the validation scan, whatever the
\* build: the preview and the grid were drawn and the request it served did
\* not raise.
ScanReached == PreviewOk(data) /\ RendersEverywhere(data) /\ msg # "Exception"

\* C14: in every reachable state the existing-data validation scan and the
\* export preparation run to completion and end in a message.
C14_ScanAndExportComplete ==
  ScanReached =>
    /\ check_existing_data_violations(data, limits) # "Exception"
    /\ prepare_export_dataframe(data).ok

\* C15: Delete Last Row on a table with no rows shows 'Table is empty' and
\* changes neither the tables nor the stacks; on a table with n >= 1 rows it
\* leaves the first n-1 rows and all columns.
C15_DeleteLastRow ==
  [][ (op' = "Delete Last Row" /\ ~table_locked) =>
        IF Len(ACTIVE_DF.rows) = 0
        THEN /\ msg' = "Table is empty"
             /\ UNCHANGED << data, history, redo_stack >>
        ELSE /\ data'[active_swg].cols = ACTIVE_DF.cols
             /\ data'[active_swg].rows
                  = SubSeq(ACTIVE_DF.rows, 1, Len(ACTIVE_DF.rows) - 1)
    ]_vars

RECURSIVE ColumnsBefore(_)
ColumnsBefore(i) ==
  IF i = 1 THEN 0
  ELSE ColumnsBefore(i - 1) + Len(data[SWG_LIST[i - 1]].cols)

\* C18: the export table has as many rows as the longest unit table; its
\* columns are those of SWG1, SWG2, SWG3 in each table's own order; a table
\* with n rows fills rows 1..n with its values (its DateTime column as
\* formatted text) and rows n+1..max with no value.
C18_ExportShape ==
  LET built == prepare_export_dataframe(data)
      export_df == built.table
      longest == CHOOSE n \in {Len(data[swg].rows) : swg \in Units} :
                   \A swg \in Units : Len(data[swg].rows) <= n
  IN built.ok =>
       /\ Len(export_df.rows) = longest
       /\ export_df.cols
            = data[SWG_LIST[1]].cols \o data[SWG_LIST[2]].cols \o data[SWG_LIST[3]].cols
       /\ \A i \in 1..Len(SWG_LIST) :
            LET swg == SWG_LIST[i]
                df == data[swg]
            IN \A j \in 1..Len(df.cols), r \in 1..longest :
                 export_df.rows[r][ColumnsBefore(i) + j] =
                   IF r > Len(df.rows) THEN NoValue
                   ELSE IF df.cols[j] = DateTimeCol(swg)
                   THEN FormatDateTime(df.rows[r][j])
                   ELSE df.rows[r][j]

\* Tables of 2, 1 and 0 rows were exported.
C18_UnequalLengthsExported ==
  /\ Len(data[SWG_LIST[1]].rows) = 2
  /\ Len(data[SWG_LIST[2]].rows) = 1
  /\ Len(data[SWG_LIST[3]].rows) = 0
  /\ Len(prepare_export_dataframe(data).table.rows) = 2

\* C19: building the export table leaves the session as it is: the tables
\* the session holds after prepare_export_dataframe are the ones it held
\* before, timestamps included, and a run that only rebuilds the export
\* changes neither tables nor limits nor the lock flag nor either stack.
C19_ExportLeavesSession ==
  [][ /\ prepare_export_dataframe(data).session = data
      /\ prepare_export_dataframe(data').session = data'
      /\ op' = "Download CSV" =>
           UNCHANGED << data, limits, table_locked, history, redo_stack >>
    ]_vars

\* An export that formatted a stored timestamp was downloaded.
C19_TimestampExported ==
  /\ op = "Download CSV"
  /\ \E swg \in Units :
       \E r \in 1..Len(data[swg].rows) :
         \E i \in Positions(data[swg].cols, DateTimeCol(swg)) :
           /\ data[swg].rows[r][i].k = "ts"
           /\ prepare_export_dataframe(data).table.rows[r][ColumnsBefore(
                 CHOOSE u \in 1..Len(SWG_LIST) : SWG_LIST[u] = swg) + i].k = "str"

\* The last script run came as far as the download section.
ExportReached ==
  /\ ScanReached
  /\ check_existing_data_violations(data, limits) # "Exception"
  /\ prepare_export_dataframe(data).ok

\* C20: the download section shows 'No data available to download yet.'
\* exactly when no row of the export table holds a value; in every other
\* state the CSV and JSON downloads are offered.
C20_ExportOfferedUnlessEmpty ==
  ExportReached =>
    LET export_df == prepare_export_dataframe(data).table
        hasValue == \E r \in 1..Len(export_df.rows) :
                      \E i \in 1..Len(export_df.cols) :
                        export_df.rows[r][i].k # "na"
    IN IF hasValue
       THEN "CSV and JSON offered" \in DownloadOutcomes(export_df)
       ELSE DownloadOutcomes(export_df) = {"No data available to download yet."}

\* C21: Reset All Data leaves every unit table with zero rows and exactly the
\* columns, names and order, it had before the reset.
C21_ResetTruncatesOnly ==
  [][ op' = "Reset All Data" =>
        \A swg \in Units :
          /\ data'[swg].rows = <<>>
          /\ data'[swg].cols = data[swg].cols
    ]_vars

\* A table that held a row and had its columns edited was reset.
C21_EditedTableReset ==
  /\ op = "Reset All Data"
  /\ data[SWG_LIST[1]].cols # CanonicalCols(SWG_LIST[1])
  /\ history # <<>>
  /\ history[Len(history)].rows # <<>>

\* C22: Reset Power Limits / Reset SOC Limits sets that field's bounds to
\* Power [-200, 200] resp. SOC [0, 100] and leaves the other field's bounds.
C22_ResetRestoresDefaults ==
  [][ /\ op' = "Reset Power Limits" =>
           /\ limits'.power = [min |-> -200, max |-> 200]
           /\ limits'.soc = limits.soc
      /\ op' = "Reset SOC Limits" =>
           /\ limits'.soc = [min |-> 0, max |-> 100]
           /\ limits'.power = limits.power
    ]_vars

\* Power was reset after both fields had been updated.
C22_PowerResetSocKept ==
  /\ op = "Reset Power Limits"
  /\ runs = 3
  /\ limits.power = DEFAULT_LIMITS.power
  /\ limits.soc # DEFAULT_LIMITS.soc

\* C23: an accepted structural edit pushes exactly one snapshot, equal to the
\* active table before the edit, so that an Undo issued right after it on the
\* same active table gives back the tables as they were; an edit command that
\* is rejected, fails or does nothing pushes no snapshot.  Stated for sessions
\* whose tables all have distinct column names.
C23_SnapshotPerAcceptedEdit ==
  [][ (op' \in EditActions /\ RendersEverywhere(data)) =>
        IF msg' \in AcceptedEditMessages
        THEN /\ history' = Append(history, data[active_swg])
             /\ UndoHandler([data |-> data', history |-> history',
                              redo_stack |-> redo_stack', shared |-> shared'],
                             active_swg).data = data
        ELSE history' = history
    ]_vars

\* C24: snapshots are copies of their own: no place of the session shares an
\* object with another, and an entry that is on the history or the redo stack
\* before and after a script run has the same value after it as before,
\* whatever the run did to a live table.
C24_StackEntriesKeepValue ==
  [][ /\ shared' = {}
      /\ \A i \in 1..Len(history) : i <= Len(history') => history'[i] = history[i]
      /\ \A i \in 1..Len(redo_stack) :
            i <= Len(redo_stack') => redo_stack'[i] = redo_stack[i]
    ]_vars

\* An in-place edit (Insert Column, Merge Columns) went through on a live
\* table while an older snapshot of a different value was on the history
\* stack.
C24_InPlaceEditOverSnapshot ==
  /\ op \in {"Insert New Column", "Merge Columns"}
  /\ msg \in AcceptedEditMessages
  /\ Len(history) >= 2
  /\ history[1] # data[active_swg]
  /\ history[1] # history[2]

\* C25: in a state in which a script run can start, init_session_state
\* changes no key that exists, so a rerun leaves the tables, the limits, the
\* lock flag and both stacks as they are; run on a session that lacks some of
\* the keys it creates exactly those: empty tables with the unit's three
\* columns, the default limits, unlocked, empty stacks.
C25_InitIsRerunSafe ==
  CanRun =>
    /\ init_session_state(session_state) = session_state
    /\ \A missing \in SUBSET SessionKeys :
          LET kept == [key \in SessionKeys \ missing |-> session_state[key]]
              after == init_session_state(kept)
          IN /\ DOMAIN after = SessionKeys
             /\ \A key \in SessionKeys \ missing : after[key] = session_state[key]
             /\ \A swg \in Units :
                   DataKey(swg) \in missing =>
                     after[DataKey(swg)] = [cols |-> CanonicalCols(swg), rows |-> <<>>]
             /\ "limits" \in missing =>
                   after["limits"] = [power |-> [min |-> -200, max |-> 200],
                                      soc |-> [min |-> 0, max |-> 100]]
             /\ "table_locked" \in missing => after["table_locked"] = FALSE
             /\ "history" \in missing => after["history"] = <<>>
             /\ "redo_stack" \in missing => after["redo_stack"] = <<>>

\* A rerun starts on a session whose tables, limits, lock and history are all
\* other than what init_session_state creates.
C25_RerunOnUsedSession ==
  /\ CanRun
  /\ runs >= 1
  /\ limits # DEFAULT_LIMITS
  /\ history # <<>>
  /\ \E swg \in Units : data[swg] # EmptyFrame(CanonicalCols(swg))

\* C26: the row an accepted Add appends holds, under the unit's power and SOC
\* labels, numbers within the limits in force during that run, bounds
\* included; an Add that is not accepted leaves every table and both stacks as
\* they were.
C26_AddedRowWithinLimits ==
  [][ op' = "Add" =>
        IF msg' = "added successfully"
        THEN \E swg \in Units :
               /\ Len(data'[swg].rows) = Len(data[swg].rows) + 1
               /\ LET cols == data'[swg].cols
                      row == data'[swg].rows[Len(data'[swg].rows)]
                  IN /\ \E i \in 1..Len(cols) :
                          /\ cols[i] = PowerCol(swg)
                          /\ row[i].k = "num"
                          /\ limits.power.min <= row[i].n
                          /\ row[i].n <= limits.power.max
                     /\ \E i \in 1..Len(cols) :
                          /\ cols[i] = SOCCol(swg)
                          /\ row[i].k = "num"
                          /\ limits.soc.min <= row[i].n
                          /\ row[i].n <= limits.soc.max
        ELSE UNCHANGED << data, history, redo_stack >>
    ]_vars

\* A reading went in under power limits other than the defaults.
C26_AddedUnderUpdatedLimits ==
  /\ op = "Add"
  /\ msg = "added successfully"
  /\ limits.power # DEFAULT_LIMITS.power

\* C27: whenever the download section offers the export (the script came as
\* far as the section and the export table holds a value, so the CSV button
\* is rendered), no two columns of the export table have the same name, which
\* is what the JSON export needs.
C27_ExportColumnNamesDistinct ==
  LET built == prepare_export_dataframe(data)
  IN (ExportReached /\ ~NothingToExport(built.table)) =>
       \A i, j \in 1..Len(built.table.cols) :
         built.table.cols[i] = built.table.cols[j] => i = j

\* C28: a structural edit command, Undo or Redo leaves the tables of the two
\* units that are not active, the limits and the lock flag as they were.
C28_OnlyActiveTableAndStacks ==
  [][ op' \in EditActions \cup {"Undo", "Redo"} =>
        /\ \A swg \in Units \ {active_swg} : data'[swg] = data[swg]
        /\ limits' = limits
        /\ table_locked' = table_locked
    ]_vars

\* An edit went through on a unit other than the first while the first
\* unit's table held a row or the limits had been updated.
C28_EditOnSecondUnit ==
  /\ op \in EditActions
  /\ msg \in AcceptedEditMessages
  /\ active_swg # SWG_LIST[1]
  /\ data[active_swg] # EmptyFrame(CanonicalCols(active_swg))
  /\ \/ data[SWG_LIST[1]].rows # <<>>
     \/ limits # DEFAULT_LIMITS

====
